---- MODULE Spec2Model ----
(***************************************************************************)
(* State-machine model of the incorporate.run backend: the REST handlers   *)
(* of server/routes.ts (src/unnamed/part_000) over the relational store of *)
(* server/storage.ts (src/unnamed/part_001, tables of shared/schema.ts),   *)
(* the retrieval index of server/services/qdrant.ts and the generation and *)
(* e-mail services (src/server/services/gemini.ts).                        *)
(*                                                                         *)
(* Rows are kept in sequences; the id of a row is its index (the store     *)
(* assigns gen_random_uuid() ids and no route deletes a row).  Every       *)
(* handler is one atomic action that also records its HTTP response in     *)
(* `res`.  Spec is the document and signature lifecycle, SpecIndex the     *)
(* retrieval index of QdrantService, SpecInvestor the investor onboarding. *)
(* SpecSignRace, SpecEnsure and SpecRetry run two requests at once, one    *)
(* store or service call per step, their locals kept in `inflight`; so do  *)
(* SpecCompanyRace and SpecUpdateRace.  SpecOnboarding, SpecChat,          *)
(* SpecContent and SpecTenants are the founder, chat, content and          *)
(* two-user views of the handlers.                                         *)
(***************************************************************************)
EXTENDS Integers, Sequences, FiniteSets, TLC

\* ---------------------------------------------------------------- bounds
MaxDocs      == 1      \* document rows
MaxSigs      == 2      \* document_signatures rows
MaxInvestors == 1      \* investors rows
MaxPoints    == 2      \* document / message ids indexed by QdrantService
MaxFounders  == 1      \* founders rows
MaxMessages  == 4      \* chat_messages rows

\* ------------------------------------------------------------- constants
SearchLimit == 3       \* limit of qdrantService.search in POST /api/chat/send

DemoUser  == "demo-user-123"
NoSession == "no-session"            \* req.user undefined: no strategy logs a user in

DocStatus == {"drafting", "validating", "signing", "active"}
Contents  == {"a", "b"}               \* non-empty texts
NoContent == ""                        \* null / empty content (falsy)
Fallback  == "I'm sorry, the AI service is not configured. Please contact support."

NoId   == 0                            \* null reference / undefined row
Tokens == 1..(MaxSigs + 1)            \* magic tokens a request can carry
DocIds == 1..(MaxDocs + 1)            \* :id values a request can carry
Replies == {"valid", "invalid", "text", "error"}   \* generation-service outcomes

\* req.body of PATCH /api/documents/:id: any of status and content
BodyStatus  == DocStatus \cup {"archived"}          \* "archived": not in the enum
BodyContent == Contents \cup {NoContent}
StatusBodies  == {[x \in {} |-> ""]} \cup {[status |-> s] : s \in BodyStatus}
ContentBodies == {[content |-> c] : c \in BodyContent}
                 \cup {[status |-> s, content |-> c] : s \in BodyStatus, c \in BodyContent}
Bodies == StatusBodies \cup ContentBodies

\* requests the server handles at once, and the locals of one not yet begun
Procs == {1, 2}
Idle  == [pc |-> "idle"]

VARIABLES
    openaiConfigured,   \* AI_INTEGRATIONS_* env vars present
    qdrantConfigured,   \* QDRANT_URL / QDRANT_API_KEY present
    companies,          \* rows of table companies
    documents,          \* rows of table documents
    signatures,         \* rows of table document_signatures
    investors,          \* rows of table investors
    founders,           \* rows of table founders
    chatMessages,       \* rows of table chat_messages
    collection,         \* the Qdrant collection exists
    points,             \* points of the Qdrant collection
    now,                \* the clock read by new Date()
    inflight,           \* the requests being handled: position and locals of each
    res                 \* the response of the last handled request

vars == <<openaiConfigured, qdrantConfigured, companies, documents, signatures,
          investors, founders, chatMessages, collection, points, now, inflight, res>>

env   == <<openaiConfigured, qdrantConfigured>>
store == <<companies, documents, signatures, investors, founders, chatMessages>>
index == <<collection, points>>

\* ------------------------------------------------------------ auth layer
\* requireAuth: a request without a user is given the demo user, then next().
requireAuth(reqUser) == IF reqUser = NoSession THEN DemoUser ELSE reqUser

\* ----------------------------------------------------------------- store
\* mutant of getCompanyByUserId: the lookup finds no row
getCompanyByUserId_none(userId) == {NoId}

\* getCompanyByUserId: select ... where user_id = userId limit 1 (no order).
\* The set of rows the query may return; {NoId} when there is none.
getCompanyByUserId(userId) ==
    LET found == {c \in 1..Len(companies) : companies[c].userId = userId}
    IN  IF found = {} THEN {NoId} ELSE found

\* getDocumentById: the row with that id, or undefined.
getDocumentById(id) == IF id \in 1..Len(documents) THEN id ELSE NoId

\* updateDocument: update ... set data where id = id; no row matched leaves
\* the table as it is.
updateDocument(docs, id, data) ==
    IF id \in 1..Len(docs)
    THEN [docs EXCEPT ![id] =
            [f \in DOMAIN docs[id] |-> IF f \in DOMAIN data THEN data[f] ELSE docs[id][f]]]
    ELSE docs

\* getSignaturesByDocumentId: every signature row of the document.
getSignaturesByDocumentId(sigs, documentId) ==
    {s \in 1..Len(sigs) : sigs[s].documentId = documentId}

\* mutant of getSignatureByToken: a query without its where clause
getSignatureByToken_noWhere(token) ==
    IF Len(signatures) = 0 THEN NoId ELSE 1

\* getSignatureByToken: the row carrying the token, or undefined.
getSignatureByToken(token) ==
    LET found == {s \in 1..Len(signatures) : signatures[s].magicToken = token}
    IN  IF found = {} THEN NoId ELSE CHOOSE s \in found : TRUE

\* mutant of updateSignature: an update without its where clause
updateSignature_noWhere(sigs, id, data) ==
    [s \in 1..Len(sigs) |->
        [f \in DOMAIN sigs[s] |-> IF f \in DOMAIN data THEN data[f] ELSE sigs[s][f]]]

\* updateSignature: update ... set data where id = id.
updateSignature(sigs, id, data) ==
    [sigs EXCEPT ![id] =
        [f \in DOMAIN sigs[id] |-> IF f \in DOMAIN data THEN data[f] ELSE sigs[id][f]]]

\* mutant of alreadySigned: the guard is missing
alreadySigned_missing(signature) == FALSE

\* the guard signature.status === 'signed' of POST /api/signatures/:token/sign
alreadySigned(signature) == signature.status = "signed"

\* updateInvestor: update ... set data where id = id.
updateInvestor(invs, id, data) ==
    [invs EXCEPT ![id] =
        [f \in DOMAIN invs[id] |-> IF f \in DOMAIN data THEN data[f] ELSE invs[id][f]]]

\* mutant of allSigned: some() in place of every()
allSigned_some(sigs, documentId) ==
    \E s \in {x \in 1..Len(sigs) : sigs[x].documentId = documentId} : sigs[s].status = "signed"

\* the allSigned test of POST /api/signatures/:token/sign
allSigned(sigs, documentId) ==
    \A s \in getSignaturesByDocumentId(sigs, documentId) : sigs[s].status = "signed"

\* EmailService.generateMagicToken: nanoid(32), a nonce; a token no row carries.
generateMagicToken(sigs) ==
    CHOOSE t \in Tokens : \A s \in 1..Len(sigs) : sigs[s].magicToken # t

\* --------------------------------------------------------------- services
\* QdrantService.isAvailable: both the Qdrant client and its OpenAI client.
isAvailable == qdrantConfigured /\ openaiConfigured

\* client.upsert: the point with that id is replaced.
upsert(pts, p) == {q \in pts : q.id # p.id} \cup {p}

\* QdrantService.storeDocument
storeDocument(pts, companyId, documentId, content) ==
    IF isAvailable
    THEN upsert(pts, [id |-> <<"doc", documentId>>, company_id |-> companyId, content |-> content])
    ELSE pts

\* QdrantService.storeChatMessage
storeChatMessage(pts, companyId, messageId, content) ==
    IF isAvailable
    THEN upsert(pts, [id |-> <<"msg", messageId>>, company_id |-> companyId, content |-> content])
    ELSE pts

\* mutant of searchFilter: the search carries no filter
searchFilter_none(pts, companyId) == pts

\* the filter of QdrantService.search: must company_id = companyId
searchFilter(pts, companyId) == {p \in pts : p.company_id = companyId}

\* QdrantService.search: the possible result sets (the `limit` nearest points
\* among those that pass the filter; which ones depends on the embeddings).
search(pts, companyId, limit) ==
    IF ~isAvailable THEN {{}}
    ELSE LET m == searchFilter(pts, companyId)
             n == IF Cardinality(m) < limit THEN Cardinality(m) ELSE limit
         IN  {r \in SUBSET m : Cardinality(r) = n}

\* ensureCollection, as run by an available storeDocument/storeChatMessage/search
ensureCollection == IF isAvailable THEN TRUE ELSE collection

\* OpenAIService.validateDocument: JSON.parse of the reply, {valid: true} when
\* the reply cannot be parsed.  Replies: "valid", "invalid" (parsable JSON with
\* that verdict) and "text" (not JSON); an unconfigured service replies Fallback.
validateDocument(reply) ==
    LET response == IF openaiConfigured THEN reply ELSE Fallback
    IN  IF response = "invalid" THEN FALSE ELSE TRUE

\* ------------------------------------------------------------------ Init
Init ==
    /\ openaiConfigured \in BOOLEAN
    /\ qdrantConfigured \in BOOLEAN
    /\ companies = <<>>
    /\ documents = <<>>
    /\ signatures = <<>>
    /\ investors = <<>>
    /\ founders = <<>>
    /\ chatMessages = <<>>
    /\ collection = FALSE
    /\ points = {}
    /\ now = 1
    /\ inflight = [p \in Procs |-> Idle]
    /\ res = [op |-> "none", code |-> 0]

\* --------------------------------------------------------------- handlers
\* POST /api/company
createCompany(reqUser) ==
    LET user == requireAuth(reqUser) IN
    \E existing \in getCompanyByUserId(user) :
        /\ IF existing # NoId
           THEN /\ res' = [op |-> "createCompany", code |-> 400, user |-> user]
                /\ UNCHANGED companies
           ELSE /\ companies' = Append(companies, [userId |-> user])
                /\ res' = [op |-> "createCompany", code |-> 200, user |-> user]
        /\ UNCHANGED <<env, inflight, documents, signatures, investors, founders, chatMessages, index, now>>

\* GET /api/documents/:id
getDocumentRoute(reqUser, id) ==
    LET user     == requireAuth(reqUser)
        document == getDocumentById(id)
    IN
    /\ IF document = NoId
       THEN res' = [op |-> "getDocument", code |-> 404, id |-> id]
       ELSE res' = [op |-> "getDocument", code |-> 200, id |-> id,
                    document |-> documents[document]]
    /\ UNCHANGED <<env, inflight, store, index, now>>

\* GET /api/documents/:id/signatures
listSignaturesRoute(reqUser, id) ==
    LET user == requireAuth(reqUser) IN
    /\ res' = [op |-> "listSignatures", code |-> 200, id |-> id,
               signatures |-> {signatures[s] : s \in getSignaturesByDocumentId(signatures, id)}]
    /\ UNCHANGED <<env, inflight, store, index, now>>

\* POST /api/documents
createDocument(reqUser, type, content) ==
    LET user == requireAuth(reqUser) IN
    \E company \in getCompanyByUserId(user) :
        /\ IF company = NoId
           THEN /\ res' = [op |-> "createDocument", code |-> 404, id |-> NoId]
                /\ UNCHANGED <<documents, index>>
           ELSE /\ Len(documents) < MaxDocs
                /\ documents' = Append(documents,
                       [companyId |-> company, type |-> type,
                        status |-> "drafting", content |-> content])
                /\ IF content # NoContent
                   THEN /\ points' = storeDocument(points, company, Len(documents) + 1, content)
                        /\ collection' = ensureCollection
                   ELSE UNCHANGED index
                /\ res' = [op |-> "createDocument", code |-> 200, id |-> Len(documents) + 1]
        /\ UNCHANGED <<env, inflight, companies, signatures, investors, founders, chatMessages, now>>

\* PATCH /api/documents/:id.  body: the fields of req.body among status and
\* content; a status outside the document_status enum makes the update throw.
updateDocumentRoute(reqUser, id, body) ==
    LET user     == requireAuth(reqUser)
        document == getDocumentById(id)
        reindex  == "content" \in DOMAIN body /\ body.content # NoContent
    IN
    \E company \in getCompanyByUserId(user) :
        /\ IF "status" \in DOMAIN body /\ body.status \notin DocStatus
           THEN /\ res' = [op |-> "updateDocument", code |-> 400, id |-> id]
                /\ UNCHANGED <<documents, index>>
           ELSE /\ documents' = updateDocument(documents, id, body)
                /\ IF reindex /\ company # NoId
                   THEN IF document = NoId
                        THEN /\ res' = [op |-> "updateDocument", code |-> 400, id |-> id]
                             /\ UNCHANGED index
                        ELSE /\ points' = storeDocument(points, company, document, body.content)
                             /\ collection' = ensureCollection
                             /\ res' = [op |-> "updateDocument", code |-> 200, id |-> id]
                   ELSE /\ res' = [op |-> "updateDocument", code |-> 200, id |-> id]
                        /\ UNCHANGED index
        /\ UNCHANGED <<env, inflight, companies, signatures, investors, founders, chatMessages, now>>

\* mutant of validateDocumentRoute: the status is written whatever the verdict
validateDocumentRoute_unguarded(id, reply) ==
    LET document == getDocumentById(id) IN
    /\ IF document = NoId
       THEN /\ res' = [op |-> "validateDocument", code |-> 404, id |-> id, valid |-> FALSE]
            /\ UNCHANGED documents
       ELSE IF openaiConfigured /\ reply = "error"
       THEN /\ res' = [op |-> "validateDocument", code |-> 500, id |-> id, valid |-> FALSE]
            /\ UNCHANGED documents
       ELSE /\ documents' = updateDocument(documents, document, [status |-> "validating"])
            /\ res' = [op |-> "validateDocument", code |-> 200, id |-> id,
                       valid |-> validateDocument(reply)]
    /\ UNCHANGED <<env, inflight, companies, signatures, investors, founders, chatMessages, index, now>>

\* POST /api/documents/:id/validate.  reply: what the generation service
\* answers ("error": the call throws).
validateDocumentRoute(id, reply) ==
    LET document == getDocumentById(id) IN
    /\ IF document = NoId
       THEN /\ res' = [op |-> "validateDocument", code |-> 404, id |-> id, valid |-> FALSE]
            /\ UNCHANGED documents
       ELSE IF openaiConfigured /\ reply = "error"
       THEN /\ res' = [op |-> "validateDocument", code |-> 500, id |-> id, valid |-> FALSE]
            /\ UNCHANGED documents
       ELSE /\ documents' = IF validateDocument(reply)
                            THEN updateDocument(documents, document, [status |-> "validating"])
                            ELSE documents
            /\ res' = [op |-> "validateDocument", code |-> 200, id |-> id,
                       valid |-> validateDocument(reply)]
    /\ UNCHANGED <<env, inflight, companies, signatures, investors, founders, chatMessages, index, now>>

\* mutant of createSignatures: status is left to the column default 'pending'
RECURSIVE createSignatures_pending(_, _, _)
createSignatures_pending(sigs, documentId, n) ==
    IF n = 0 THEN sigs
    ELSE createSignatures_pending(
            Append(sigs, [documentId |-> documentId, status |-> "pending",
                          magicToken |-> generateMagicToken(sigs), signedAt |-> NoId]),
            documentId, n - 1)

\* storage.createSignature for the first n signers of the loop of
\* POST /api/documents/:id/send-for-signature
RECURSIVE createSignatures(_, _, _)
createSignatures(sigs, documentId, n) ==
    IF n = 0 THEN sigs
    ELSE createSignatures(
            Append(sigs, [documentId |-> documentId, status |-> "sent",
                          magicToken |-> generateMagicToken(sigs), signedAt |-> NoId]),
            documentId, n - 1)

\* POST /api/documents/:id/send-for-signature.  k: the length of req.body.signers
\* (NotAnArray: signers missing or not an array); failAt: the signer whose
\* notification throws (0: none does).
NotAnArray == -1

\* mutant of sendForSignature: the status is written before the loop
sendForSignature_statusFirst(id, k, failAt) ==
    LET document == getDocumentById(id) IN
    /\ IF document = NoId
       THEN /\ res' = [op |-> "sendForSignature", code |-> 404, id |-> id, k |-> k]
            /\ UNCHANGED <<documents, signatures>>
       ELSE IF k = NotAnArray
       THEN /\ res' = [op |-> "sendForSignature", code |-> 400, id |-> id, k |-> k]
            /\ UNCHANGED <<documents, signatures>>
       ELSE /\ failAt \in 0..k
            /\ Len(signatures) + k <= MaxSigs
            /\ documents' = updateDocument(documents, document, [status |-> "signing"])
            /\ IF failAt # 0
               THEN /\ signatures' = createSignatures(signatures, document, failAt)
                    /\ res' = [op |-> "sendForSignature", code |-> 500, id |-> id, k |-> k]
               ELSE /\ signatures' = createSignatures(signatures, document, k)
                    /\ res' = [op |-> "sendForSignature", code |-> 200, id |-> id, k |-> k]
    /\ UNCHANGED <<env, inflight, companies, investors, founders, chatMessages, index, now>>

\* POST /api/documents/:id/send-for-signature (the handler)
sendForSignature(id, k, failAt) ==
    LET document == getDocumentById(id) IN
    /\ IF document = NoId
       THEN /\ res' = [op |-> "sendForSignature", code |-> 404, id |-> id, k |-> k]
            /\ UNCHANGED <<documents, signatures>>
       ELSE IF k = NotAnArray
       THEN /\ res' = [op |-> "sendForSignature", code |-> 400, id |-> id, k |-> k]
            /\ UNCHANGED <<documents, signatures>>
       ELSE /\ failAt \in 0..k
            /\ Len(signatures) + k <= MaxSigs
            /\ IF failAt # 0
               THEN /\ signatures' = createSignatures(signatures, document, failAt)
                    /\ res' = [op |-> "sendForSignature", code |-> 500, id |-> id, k |-> k]
                    /\ UNCHANGED documents
               ELSE /\ signatures' = createSignatures(signatures, document, k)
                    /\ documents' = updateDocument(documents, document, [status |-> "signing"])
                    /\ res' = [op |-> "sendForSignature", code |-> 200, id |-> id, k |-> k]
    /\ UNCHANGED <<env, inflight, companies, investors, founders, chatMessages, index, now>>

\* mutant of signByToken: a sign also sets the founders of the company active
signByToken_activatesFounders(token) ==
    LET signature == getSignatureByToken(token) IN
    /\ IF signature = NoId
       THEN /\ res' = [op |-> "signByToken", code |-> 404, token |-> token, signature |-> NoId]
            /\ UNCHANGED <<documents, signatures, founders, now>>
       ELSE IF alreadySigned(signatures[signature])
       THEN /\ res' = [op |-> "signByToken", code |-> 400, token |-> token, signature |-> signature]
            /\ UNCHANGED <<documents, signatures, founders, now>>
       ELSE LET updated    == updateSignature(signatures, signature,
                                  [status |-> "signed", signedAt |-> now])
                documentId == signatures[signature].documentId
            IN  /\ signatures' = updated
                /\ now' = now + 1
                /\ documents' = IF allSigned(updated, documentId)
                                THEN updateDocument(documents, documentId, [status |-> "active"])
                                ELSE documents
                /\ founders' = [f \in 1..Len(founders) |->
                                   [founders[f] EXCEPT !.status = "active"]]
                /\ res' = [op |-> "signByToken", code |-> 200, token |-> token,
                           signature |-> signature]
    /\ UNCHANGED <<env, inflight, companies, investors, chatMessages, index>>

\* POST /api/signatures/:token/sign (no auth)
signByToken(token) ==
    LET signature == getSignatureByToken(token) IN
    /\ IF signature = NoId
       THEN /\ res' = [op |-> "signByToken", code |-> 404, token |-> token, signature |-> NoId]
            /\ UNCHANGED <<documents, signatures, now>>
       ELSE IF alreadySigned(signatures[signature])
       THEN /\ res' = [op |-> "signByToken", code |-> 400, token |-> token, signature |-> signature]
            /\ UNCHANGED <<documents, signatures, now>>
       ELSE LET updated    == updateSignature(signatures, signature,
                                  [status |-> "signed", signedAt |-> now])
                documentId == signatures[signature].documentId
            IN  /\ signatures' = updated
                /\ now' = now + 1
                /\ documents' = IF allSigned(updated, documentId)
                                THEN updateDocument(documents, documentId, [status |-> "active"])
                                ELSE documents
                /\ res' = [op |-> "signByToken", code |-> 200, token |-> token,
                           signature |-> signature]
    /\ UNCHANGED <<env, inflight, companies, investors, founders, chatMessages, index>>

\* OpenAIService.draftDocument: the generated text, Fallback when the service
\* is not configured.
Drafted == "SAFE draft"
draftDocument == IF openaiConfigured THEN Drafted ELSE Fallback

\* POST /api/investors.  parses: insertInvestorSchema accepts the body;
\* safeRef: the safeDocumentId of the body (NoId: none); draft: "ok", or
\* "error" when the generation call throws.
addInvestor(reqUser, parses, safeRef, draft) ==
    LET user == requireAuth(reqUser) IN
    \E company \in getCompanyByUserId(user) :
        /\ IF company = NoId
           THEN /\ res' = [op |-> "addInvestor", code |-> 404, id |-> NoId]
                /\ UNCHANGED <<documents, investors>>
           ELSE IF ~parses \/ (safeRef # NoId /\ getDocumentById(safeRef) = NoId)
           THEN /\ res' = [op |-> "addInvestor", code |-> 400, id |-> NoId]
                /\ UNCHANGED <<documents, investors>>
           ELSE LET investor == [companyId |-> company, status |-> "pending",
                                 safeDocumentId |-> safeRef]
                    id       == Len(investors) + 1
                    created  == Append(investors, investor)
                    safeDoc  == Len(documents) + 1
                IN  /\ Len(investors) < MaxInvestors
                    /\ IF openaiConfigured /\ draft = "error"
                       THEN /\ investors' = created
                            /\ res' = [op |-> "addInvestor", code |-> 400, id |-> id]
                            /\ UNCHANGED documents
                       ELSE /\ Len(documents) < MaxDocs
                            /\ documents' = Append(documents,
                                   [companyId |-> company, type |-> "safe",
                                    status |-> "drafting", content |-> draftDocument])
                            /\ investors' = updateInvestor(created, id, [safeDocumentId |-> safeDoc])
                            /\ res' = [op |-> "addInvestor", code |-> 200, id |-> id,
                                       investor |-> investor]
        /\ UNCHANGED <<env, inflight, companies, signatures, founders, chatMessages, index, now>>

\* req.body of POST /api/founders: an email, and any of status and companyId
FounderBodies ==
    {[email |-> "f@x"], [email |-> "f@x", status |-> "active"],
     [email |-> "f@x", companyId |-> 2],
     [email |-> "f@x", status |-> "active", companyId |-> 2]}

\* mutant of founderData: the body is spread after companyId and status
founderData_bodyLast(body, company) ==
    [f \in (DOMAIN body) \cup {"companyId", "status"} |->
        IF f \in DOMAIN body THEN body[f]
        ELSE IF f = "companyId" THEN company ELSE "invited"]

\* {...req.body, companyId: company.id, status: 'invited'}
founderData(body, company) ==
    [f \in (DOMAIN body) \cup {"companyId", "status"} |->
        IF f = "companyId" THEN company
        ELSE IF f = "status" THEN "invited" ELSE body[f]]

\* POST /api/founders.  parses: insertFounderSchema accepts the data;
\* mailFails: emailService.sendFounderInvitation throws.
inviteFounder(reqUser, parses, body, mailFails) ==
    LET user == requireAuth(reqUser) IN
    \E company \in getCompanyByUserId(user) :
        /\ IF company = NoId
           THEN /\ res' = [op |-> "inviteFounder", code |-> 404, id |-> NoId]
                /\ UNCHANGED founders
           ELSE IF ~parses
           THEN /\ res' = [op |-> "inviteFounder", code |-> 400, id |-> NoId]
                /\ UNCHANGED founders
           ELSE /\ Len(founders) < MaxFounders
                /\ founders' = Append(founders, founderData(body, company))
                /\ res' = [op |-> "inviteFounder", code |-> IF mailFails THEN 400 ELSE 200,
                           id |-> Len(founders) + 1]
        /\ UNCHANGED <<env, inflight, companies, documents, signatures, investors,
                       chatMessages, index, now>>

\* mutant of answerFails: an unconfigured generation service throws
answerFails_unconfigured(reply) == ~openaiConfigured \/ reply = "error"

\* OpenAIService.answerQuestion throws: the generation call throws ("error")
\* and a client is configured
answerFails(reply) == openaiConfigured /\ reply = "error"

\* OpenAIService.answerQuestion: the completion, Fallback without a client
answerQuestion(reply) == IF openaiConfigured THEN reply ELSE Fallback

\* POST /api/chat/send.  content: req.body.content; reply: what the
\* generation service answers ("error": the call throws).
sendChatMessage(reqUser, content, reply) ==
    LET user == requireAuth(reqUser) IN
    \E company \in getCompanyByUserId(user) :
        /\ IF company = NoId
           THEN /\ res' = [op |-> "sendChatMessage", code |-> 404]
                /\ UNCHANGED <<chatMessages, index>>
           ELSE IF content = NoContent
           THEN /\ res' = [op |-> "sendChatMessage", code |-> 400]
                /\ UNCHANGED <<chatMessages, index>>
           ELSE LET userMessage == [companyId |-> company, role |-> "user",
                                    content |-> content]
                    userId      == Len(chatMessages) + 1
                    aiResponse  == answerQuestion(reply)
                    assistantMessage == [companyId |-> company, role |-> "assistant",
                                         content |-> aiResponse]
                    stored      == storeChatMessage(points, company, userId, content)
                IN  /\ Len(chatMessages) + 2 <= MaxMessages
                    /\ collection' = ensureCollection
                    /\ IF answerFails(reply)
                       THEN /\ chatMessages' = Append(chatMessages, userMessage)
                            /\ points' = stored
                            /\ res' = [op |-> "sendChatMessage", code |-> 500]
                       ELSE /\ chatMessages' = Append(Append(chatMessages, userMessage),
                                                      assistantMessage)
                            /\ points' = storeChatMessage(stored, company, userId + 1,
                                                          aiResponse)
                            /\ res' = [op |-> "sendChatMessage", code |-> 200,
                                       userMessage |-> userMessage,
                                       assistantMessage |-> assistantMessage]
        /\ UNCHANGED <<env, inflight, companies, documents, signatures, investors,
                       founders, now>>

\* QdrantService.storeDocument called with any arguments
qdrantStoreDocument(companyId, documentId, content) ==
    /\ points' = storeDocument(points, companyId, documentId, content)
    /\ collection' = ensureCollection
    /\ res' = [op |-> "storeDocument", code |-> 200]
    /\ UNCHANGED <<env, inflight, store, now>>

\* QdrantService.storeChatMessage called with any arguments
qdrantStoreChatMessage(companyId, messageId, content) ==
    /\ points' = storeChatMessage(points, companyId, messageId, content)
    /\ collection' = ensureCollection
    /\ res' = [op |-> "storeChatMessage", code |-> 200]
    /\ UNCHANGED <<env, inflight, store, now>>

\* QdrantService.search called with any arguments; res.results: what it returns
qdrantSearch(companyId, limit) ==
    \E results \in search(points, companyId, limit) :
        /\ res' = [op |-> "search", code |-> 200, companyId |-> companyId,
                   results |-> results]
        /\ collection' = ensureCollection
        /\ UNCHANGED <<env, inflight, store, points, now>>

\* ------------------------------------------------- interleaved requests
\* POST /api/signatures/:token/sign taken one store call at a time by request
\* p; between two steps of p any step of the other request may run.

\* the answer of the sign route and the end of request p
signRespond(p, code, token, signature, sawAll) ==
    /\ inflight' = [inflight EXCEPT ![p] =
          [pc |-> "done", op |-> "signByToken", code |-> code, token |-> token,
           signature |-> signature, allSigned |-> sawAll]]
    /\ res' = [op |-> "signByToken", code |-> code, token |-> token,
               signature |-> signature]

\* storage.getSignatureByToken and the two guards on what it returned
signLookup(p, token) ==
    LET signature == getSignatureByToken(token) IN
    /\ inflight[p] = Idle
    /\ IF signature = NoId
       THEN signRespond(p, 404, token, NoId, FALSE)
       ELSE IF alreadySigned(signatures[signature])
       THEN signRespond(p, 400, token, signature, FALSE)
       ELSE /\ inflight' = [inflight EXCEPT ![p] =
                  [pc |-> "updateSignature", op |-> "signByToken", token |-> token,
                   signature |-> signature,
                   documentId |-> signatures[signature].documentId]]
            /\ UNCHANGED res
    /\ UNCHANGED <<env, store, index, now>>

\* storage.updateSignature(signature.id, {status: 'signed', signedAt: new Date()})
signUpdate(p) ==
    /\ inflight[p].pc = "updateSignature"
    /\ signatures' = updateSignature(signatures, inflight[p].signature,
                         [status |-> "signed", signedAt |-> now])
    /\ now' = now + 1
    /\ inflight' = [inflight EXCEPT ![p].pc = "getSignaturesByDocumentId"]
    /\ UNCHANGED <<env, companies, documents, investors, founders, chatMessages, index, res>>

\* mutant of signRecheck: every() tests for 'sent'
signRecheck_wrongStatus(p) ==
    LET l == inflight[p]
        all == \A s \in getSignaturesByDocumentId(signatures, l.documentId) :
                  signatures[s].status = "sent"
    IN
    /\ l.pc = "getSignaturesByDocumentId"
    /\ IF all
       THEN /\ inflight' = [inflight EXCEPT ![p] =
                  [pc |-> "updateDocument", op |-> "signByToken", token |-> l.token,
                   signature |-> l.signature, documentId |-> l.documentId]]
            /\ UNCHANGED res
       ELSE signRespond(p, 200, l.token, l.signature, FALSE)
    /\ UNCHANGED <<env, store, index, now>>

\* storage.getSignaturesByDocumentId and the allSigned test on what it returned
signRecheck(p) ==
    LET l == inflight[p]
        all == allSigned(signatures, l.documentId)
    IN
    /\ l.pc = "getSignaturesByDocumentId"
    /\ IF all
       THEN /\ inflight' = [inflight EXCEPT ![p] =
                  [pc |-> "updateDocument", op |-> "signByToken", token |-> l.token,
                   signature |-> l.signature, documentId |-> l.documentId]]
            /\ UNCHANGED res
       ELSE signRespond(p, 200, l.token, l.signature, FALSE)
    /\ UNCHANGED <<env, store, index, now>>

\* storage.updateDocument(signature.documentId, {status: 'active'}), then res.json
signActivate(p) ==
    LET l == inflight[p] IN
    /\ l.pc = "updateDocument"
    /\ documents' = updateDocument(documents, l.documentId, [status |-> "active"])
    /\ signRespond(p, 200, l.token, l.signature, TRUE)
    /\ UNCHANGED <<env, companies, signatures, investors, founders, chatMessages, index, now>>

\* QdrantService.storeDocument taken one Qdrant call at a time by request p;
\* its first calls are those of ensureCollection.

\* the end of storeDocument: code 200 when it returned, 500 when it threw
storeRespond(p, code) ==
    /\ inflight' = [inflight EXCEPT ![p] =
          [pc |-> "done", op |-> "storeDocument", code |-> code]]
    /\ res' = [op |-> "storeDocument", code |-> code]

\* isAvailable, then ensureCollection: try { client.getCollection } catch
storeGetCollection(p, companyId, documentId, content) ==
    /\ inflight[p] = Idle
    /\ IF ~isAvailable
       THEN storeRespond(p, 200)
       ELSE /\ inflight' = [inflight EXCEPT ![p] =
                  [pc |-> IF collection THEN "upsert" ELSE "createCollection",
                   op |-> "storeDocument", companyId |-> companyId,
                   documentId |-> documentId, content |-> content]]
            /\ UNCHANGED res
    /\ UNCHANGED <<env, store, index, now>>

\* ensureCollection: client.createCollection in the catch block; Qdrant
\* refuses to create a collection whose name exists and the call throws
storeCreateCollection(p) ==
    /\ inflight[p].pc = "createCollection"
    /\ IF collection
       THEN storeRespond(p, 500) /\ UNCHANGED collection
       ELSE /\ collection' = TRUE
            /\ inflight' = [inflight EXCEPT ![p].pc = "createPayloadIndex"]
            /\ UNCHANGED res
    /\ UNCHANGED <<env, store, points, now>>

\* ensureCollection: client.createPayloadIndex on company_id
storeCreatePayloadIndex(p) ==
    /\ inflight[p].pc = "createPayloadIndex"
    /\ inflight' = [inflight EXCEPT ![p].pc = "upsert"]
    /\ UNCHANGED <<env, store, index, now, res>>

\* generateEmbedding and client.upsert of the point doc_<documentId>
storeUpsert(p) ==
    LET l == inflight[p] IN
    /\ l.pc = "upsert"
    /\ points' = storeDocument(points, l.companyId, l.documentId, l.content)
    /\ storeRespond(p, 200)
    /\ UNCHANGED <<env, store, collection, now>>

\* OpenAIService.generateResponse taken one attempt at a time by call p.
\* pRetry options: retries is the number of retries after the first attempt;
\* the n-th retry waits minTimeout * factor^(n-1), at most maxTimeout.
Retries    == 7
MinTimeout == 2000
MaxTimeout == 128000
Factor     == 2

\* error messages of the generation client, as their words
ErrorMessages ==
    {<<"429", "Too", "Many", "Requests">>, <<"RATELIMIT_EXCEEDED">>,
     <<"Quota", "exceeded">>, <<"Rate", "limit", "reached">>,
     <<"Connection", "reset">>, <<"401", "Unauthorized">>}
Outcomes == {[ok |-> TRUE, message |-> <<>>]}
            \cup {[ok |-> FALSE, message |-> m] : m \in ErrorMessages}

\* String.prototype.toLowerCase, word by word
toLowerCase(msg) ==
    [i \in 1..Len(msg) |->
        CASE msg[i] = "Quota" -> "quota"
          [] msg[i] = "Rate"  -> "rate"
          [] msg[i] = "Too"   -> "too"
          [] msg[i] = "Many"  -> "many"
          [] msg[i] = "Requests"     -> "requests"
          [] msg[i] = "Connection"   -> "connection"
          [] msg[i] = "Unauthorized" -> "unauthorized"
          [] OTHER -> msg[i]]

\* String.prototype.includes for a phrase of one or two words
includes(msg, phrase) ==
    \E i \in 1..Len(msg) :
        /\ i + Len(phrase) - 1 <= Len(msg)
        /\ \A j \in 1..Len(phrase) : msg[i + j - 1] = phrase[j]

\* mutant of isRateLimitError: every error counts as a rate-limit error
isRateLimitError_any(errorMsg) == TRUE

\* isRateLimitError
isRateLimitError(errorMsg) ==
    \/ includes(errorMsg, <<"429">>)
    \/ includes(errorMsg, <<"RATELIMIT_EXCEEDED">>)
    \/ includes(toLowerCase(errorMsg), <<"quota">>)
    \/ includes(toLowerCase(errorMsg), <<"rate", "limit">>)

\* the wait before the n-th retry
retryTimeout(n) ==
    LET t == MinTimeout * Factor ^ (n - 1)
    IN  IF t > MaxTimeout THEN MaxTimeout ELSE t

\* the end of generateResponse: result "text" (the completion), "fallback"
\* (service not configured), "aborted" (AbortError) or "failed" (retries used up)
generateRespond(p, attempts, result, error) ==
    /\ inflight' = [inflight EXCEPT ![p] =
          [pc |-> "done", op |-> "generateResponse", attempts |-> attempts,
           error |-> error, delay |-> 0, result |-> result]]
    /\ res' = [op |-> "generateResponse", code |-> IF result \in {"text", "fallback"}
                                                   THEN 200 ELSE 500]

\* getOpenAI(): the fallback text when there is no client, else pRetry starts
generateBegin(p) ==
    /\ inflight[p] = Idle
    /\ IF ~openaiConfigured
       THEN generateRespond(p, 0, "fallback", <<>>)
       ELSE /\ inflight' = [inflight EXCEPT ![p] =
                  [pc |-> "attempt", op |-> "generateResponse", attempts |-> 0,
                   error |-> <<>>, delay |-> 0, result |-> ""]]
            /\ UNCHANGED res
    /\ UNCHANGED <<env, store, index, now>>

\* one run of the function given to pRetry: client.chat.completions.create
\* and the catch that rethrows rate-limit errors and aborts on any other
generateAttempt(p, outcome) ==
    LET l == inflight[p]
        n == l.attempts + 1
    IN
    /\ l.pc = "attempt"
    /\ IF outcome.ok
       THEN generateRespond(p, n, "text", <<>>)
       ELSE IF ~isRateLimitError(outcome.message)
       THEN generateRespond(p, n, "aborted", outcome.message)
       ELSE IF n > Retries
       THEN generateRespond(p, n, "failed", outcome.message)
       ELSE /\ inflight' = [inflight EXCEPT ![p] =
                  [pc |-> "backoff", op |-> "generateResponse", attempts |-> n,
                   error |-> outcome.message, delay |-> retryTimeout(n), result |-> ""]]
            /\ UNCHANGED res
    /\ UNCHANGED <<env, store, index, now>>

\* the wait of pRetry before the next attempt
generateBackoff(p) ==
    /\ inflight[p].pc = "backoff"
    /\ inflight' = [inflight EXCEPT ![p].pc = "attempt"]
    /\ UNCHANGED <<env, store, index, now, res>>

\* POST /api/company taken one store call at a time by request p.

\* the answer of the company route and the end of request p
companyRespond(p, code) ==
    /\ inflight' = [inflight EXCEPT ![p] =
          [pc |-> "done", op |-> "createCompany", code |-> code]]
    /\ res' = [op |-> "createCompany", code |-> code, user |-> DemoUser]

\* storage.getCompanyByUserId, the guard on what it returned, and the parse
\* of the body (parses: insertCompanySchema accepts it)
companyLookup(p, reqUser, parses) ==
    LET user == requireAuth(reqUser) IN
    /\ inflight[p] = Idle
    /\ \E existing \in getCompanyByUserId(user) :
          IF existing # NoId \/ ~parses
          THEN companyRespond(p, 400)
          ELSE /\ inflight' = [inflight EXCEPT ![p] =
                     [pc |-> "createCompany", op |-> "createCompany", user |-> user]]
               /\ UNCHANGED res
    /\ UNCHANGED <<env, store, index, now>>

\* storage.createCompany(data), then res.json(company)
companyInsert(p) ==
    /\ inflight[p].pc = "createCompany"
    /\ companies' = Append(companies, [userId |-> inflight[p].user])
    /\ companyRespond(p, 200)
    /\ UNCHANGED <<env, documents, signatures, investors, founders, chatMessages,
                   index, now>>

\* the response is sent: the connection of p takes its next request
requestEnd(p) ==
    /\ inflight[p].pc = "done"
    /\ inflight' = [inflight EXCEPT ![p] = Idle]
    /\ UNCHANGED <<env, store, index, now, res>>

\* PATCH /api/documents/:id with a content, taken one call at a time by request p.

\* the answer of the PATCH route and the end of request p
patchRespond(p, code, id, content) ==
    /\ inflight' = [inflight EXCEPT ![p] =
          [pc |-> "done", op |-> "updateDocument", code |-> code, id |-> id,
           content |-> content]]
    /\ res' = [op |-> "updateDocument", code |-> code, id |-> id]

\* storage.updateDocument(req.params.id, req.body) and the test of req.body.content
patchUpdate(p, id, content) ==
    /\ inflight[p] = Idle
    /\ documents' = updateDocument(documents, id, [content |-> content])
    /\ IF content = NoContent
       THEN patchRespond(p, 200, id, content)
       ELSE /\ inflight' = [inflight EXCEPT ![p] =
                  [pc |-> "getCompanyByUserId", op |-> "updateDocument", id |-> id,
                   content |-> content, document |-> getDocumentById(id)]]
            /\ UNCHANGED res
    /\ UNCHANGED <<env, companies, signatures, investors, founders, chatMessages,
                   index, now>>

\* storage.getCompanyByUserId(req.user.id); document.id of an undefined
\* document throws
patchCompany(p, reqUser) ==
    LET l    == inflight[p]
        user == requireAuth(reqUser)
    IN
    /\ l.pc = "getCompanyByUserId"
    /\ \E company \in getCompanyByUserId(user) :
          IF company = NoId
          THEN patchRespond(p, 200, l.id, l.content)
          ELSE IF l.document = NoId
          THEN patchRespond(p, 400, l.id, l.content)
          ELSE /\ inflight' = [inflight EXCEPT ![p] =
                     [pc |-> "storeDocument", op |-> "updateDocument", id |-> l.id,
                      content |-> l.content, document |-> l.document,
                      company |-> company]]
               /\ UNCHANGED res
    /\ UNCHANGED <<env, store, index, now>>

\* qdrantService.storeDocument(company.id, document.id, req.body.content), then res.json
patchIndex(p) ==
    LET l == inflight[p] IN
    /\ l.pc = "storeDocument"
    /\ points' = storeDocument(points, l.company, l.document, l.content)
    /\ collection' = ensureCollection
    /\ patchRespond(p, 200, l.id, l.content)
    /\ UNCHANGED <<env, store, now>>

\* ------------------------------------------------------- specifications
\* Document and signature lifecycle.
Next ==
    \/ createCompany(NoSession)
    \/ createDocument(NoSession, "nda", NoContent)
    \/ \E id \in DocIds, b \in StatusBodies : updateDocumentRoute(NoSession, id, b)
    \/ \E id \in DocIds, r \in Replies : validateDocumentRoute(id, r)
    \/ \E id \in DocIds, k \in {NotAnArray} \cup (0..MaxSigs), f \in 0..MaxSigs :
          sendForSignature(id, k, f)
    \/ \E t \in Tokens : signByToken(t)

Spec == Init /\ [][Next]_vars

\* Retrieval index: QdrantService under any sequence of calls.
CompanyIds == {1, 2}
NextIndex ==
    \/ \E c \in CompanyIds, d \in 1..MaxPoints, x \in Contents : qdrantStoreDocument(c, d, x)
    \/ \E c \in CompanyIds, m \in 1..MaxPoints, x \in Contents : qdrantStoreChatMessage(c, m, x)
    \/ \E c \in CompanyIds, l \in {1, SearchLimit} : qdrantSearch(c, l)

SpecIndex == Init /\ [][NextIndex]_vars

\* Investor onboarding.
NextInvestor ==
    \/ createCompany(NoSession)
    \/ \E c \in Contents \cup {NoContent} : createDocument(NoSession, "nda", c)
    \/ \E p \in BOOLEAN, r \in 0..MaxDocs, d \in {"ok", "error"} : addInvestor(NoSession, p, r, d)

SpecInvestor == Init /\ [][NextInvestor]_vars

\* Two sign requests at once.  The documents and their signature rows are
\* set up by whole requests while no sign request has been received (Quiet).
Quiet == \A p \in Procs : inflight[p] = Idle
NextSignRace ==
    \/ Quiet /\ createCompany(NoSession)
    \/ Quiet /\ createDocument(NoSession, "nda", NoContent)
    \/ Quiet /\ \E id \in DocIds, k \in 0..MaxSigs, f \in 0..MaxSigs : sendForSignature(id, k, f)
    \/ \E p \in Procs, t \in Tokens : signLookup(p, t)
    \/ \E p \in Procs : signUpdate(p)
    \/ \E p \in Procs : signRecheck(p)
    \/ \E p \in Procs : signActivate(p)

SpecSignRace == Init /\ [][NextSignRace]_vars

\* Two storeDocument calls at once on a cold index.
NextEnsure ==
    \/ \E p \in Procs, c \in CompanyIds, d \in 1..MaxPoints : storeGetCollection(p, c, d, "a")
    \/ \E p \in Procs : storeCreateCollection(p)
    \/ \E p \in Procs : storeCreatePayloadIndex(p)
    \/ \E p \in Procs : storeUpsert(p)

SpecEnsure == Init /\ [][NextEnsure]_vars

\* Two generation calls at once, each attempt answered in any way.
NextRetry ==
    \/ \E p \in Procs : generateBegin(p)
    \/ \E p \in Procs, o \in Outcomes : generateAttempt(p, o)
    \/ \E p \in Procs : generateBackoff(p)

SpecRetry == Init /\ [][NextRetry]_vars

\* Founders and investors next to the signing of documents.
NextOnboarding ==
    \/ createCompany(NoSession)
    \/ \E p \in BOOLEAN, b \in FounderBodies, m \in BOOLEAN : inviteFounder(NoSession, p, b, m)
    \/ addInvestor(NoSession, TRUE, NoId, "ok")
    \/ \E id \in DocIds, k \in 0..MaxSigs : sendForSignature(id, k, 0)
    \/ \E t \in Tokens : signByToken(t)

SpecOnboarding == Init /\ [][NextOnboarding]_vars

\* The chat of the company.
NextChat ==
    \/ createCompany(NoSession)
    \/ \E c \in Contents \cup {NoContent}, r \in {"answer", "error"} :
          sendChatMessage(NoSession, c, r)

SpecChat == Init /\ [][NextChat]_vars

\* Documents with content and their points in the index.
NextContent ==
    \/ createCompany(NoSession)
    \/ \E c \in Contents \cup {NoContent} : createDocument(NoSession, "nda", c)
    \/ \E id \in DocIds, b \in ContentBodies : updateDocumentRoute(NoSession, id, b)

SpecContent == Init /\ [][NextContent]_vars

\* Two users with a session each, and the by-id document routes.
Users == {"user-a", "user-b"}
NextTenants ==
    \/ \E u \in Users : createCompany(u)
    \/ \E u \in Users : createDocument(u, "nda", NoContent)
    \/ \E u \in Users, id \in DocIds : getDocumentRoute(u, id)
    \/ \E u \in Users, id \in DocIds, b \in StatusBodies : updateDocumentRoute(u, id, b)
    \/ \E id \in DocIds, k \in 0..MaxSigs : sendForSignature(id, k, 0)
    \/ \E u \in Users, id \in DocIds : listSignaturesRoute(u, id)

SpecTenants == Init /\ [][NextTenants]_vars

\* Two createCompany requests at once, and documents created afterwards.
NextCompanyRace ==
    \/ \E p \in Procs, ok \in BOOLEAN : companyLookup(p, NoSession, ok)
    \/ \E p \in Procs : companyInsert(p)
    \/ \E p \in Procs : requestEnd(p)
    \/ createDocument(NoSession, "nda", NoContent)

SpecCompanyRace == Init /\ [][NextCompanyRace]_vars

\* Two content updates at once; the company and its documents are set up by
\* whole requests while no update has been received.
NextUpdateRace ==
    \/ Quiet /\ createCompany(NoSession)
    \/ Quiet /\ \E c \in Contents : createDocument(NoSession, "nda", c)
    \/ \E p \in Procs, id \in DocIds, c \in Contents \cup {NoContent} : patchUpdate(p, id, c)
    \/ \E p \in Procs : patchCompany(p, NoSession)
    \/ \E p \in Procs : patchIndex(p)

SpecUpdateRace == Init /\ [][NextUpdateRace]_vars

\* ------------------------------------------------------------- properties
Rows(t) == 1..Len(t)

\* C1: a document's status never regresses: one that reached signing or
\* active never goes back to drafting or validating, and one that reached
\* active never goes back to signing.
C1_StatusNeverRegresses ==
    [][\A d \in Rows(documents) :
          /\ documents[d].status \in {"signing", "active"}
                => documents'[d].status \notin {"drafting", "validating"}
          /\ documents[d].status = "active" => documents'[d].status # "signing"]_vars

\* C2: a document whose status is active has every one of its signatures
\* in status signed.
C2_ActiveOnlyWhenAllSigned ==
    \A d \in Rows(documents) :
        documents[d].status = "active"
            => \A s \in Rows(signatures) :
                  signatures[s].documentId = d => signatures[s].status = "signed"

\* C3: a successful sign of a signature that is not the last outstanding one
\* of its document leaves the document's status as it is (signing stays
\* signing); the successful sign of the last outstanding one sets it active.
C3_LastSignActivates ==
    [][(res'.op = "signByToken" /\ res'.code = 200) =>
          LET s == res'.signature
              d == signatures[s].documentId
              outstanding == {x \in Rows(signatures) :
                                 /\ signatures[x].documentId = d
                                 /\ signatures[x].status # "signed"}
          IN  /\ s \in outstanding
              /\ signatures'[s].status = "signed"
              /\ IF outstanding = {s}
                 THEN documents'[d].status = "active"
                 ELSE documents'[d].status = documents[d].status]_vars

\* C3 witness: two signers of one document signed in reverse order, the
\* second sign having just set the document active.
C3_Witness ==
    /\ res.op = "signByToken" /\ res.code = 200
    /\ \E s1, s2 \in Rows(signatures) :
          /\ s1 < s2 /\ res.signature = s1
          /\ signatures[s1].documentId = signatures[s2].documentId
          /\ signatures[s1].status = "signed" /\ signatures[s2].status = "signed"
          /\ signatures[s2].signedAt < signatures[s1].signedAt
          /\ documents[signatures[s1].documentId].status = "active"

\* C4: a sign request with a token whose signature is already signed is
\* answered 400 and changes neither the signature (its signed timestamp
\* included) nor anything else.
C4_SecondSignRejected ==
    [][\A s \in Rows(signatures) :
          (/\ res'.op = "signByToken"
           /\ res'.token = signatures[s].magicToken
           /\ signatures[s].status = "signed")
          => /\ res'.code = 400
             /\ signatures' = signatures
             /\ documents' = documents
             /\ now' = now
             /\ UNCHANGED <<companies, investors, chatMessages, index>>]_vars

\* C4 witness: a second sign with a consumed token was rejected.
C4_Witness ==
    /\ res.op = "signByToken" /\ res.code = 400
    /\ \E s \in Rows(signatures) :
          signatures[s].magicToken = res.token /\ signatures[s].signedAt # NoId

\* C5: a sign request with a token that no signature carries is answered 404
\* and leaves every signature and every document unchanged.
C5_UnknownTokenNotFound ==
    [][(/\ res'.op = "signByToken"
        /\ \A s \in Rows(signatures) : signatures[s].magicToken # res'.token)
       => /\ res'.code = 404
          /\ signatures' = signatures
          /\ documents' = documents
          /\ UNCHANGED <<companies, investors, chatMessages, index, now>>]_vars

\* C5 witness: an unknown token was refused while signature rows exist.
C5_Witness ==
    /\ res.op = "signByToken" /\ res.code = 404
    /\ Len(signatures) > 0

\* C7: a search scoped to a company returns only points whose payload was
\* indexed under that company.
C7_TenantIsolation ==
    res.op = "search" => \A p \in res.results : p.company_id = res.companyId

\* C7 witness: a search returned a point while another company has points.
C7_Witness ==
    /\ res.op = "search" /\ res.results # {}
    /\ \E p \in points : p.company_id # res.companyId

C9_InvestorHasSafe ==
    (res.op = "addInvestor" /\ res.code = 200) =>
        LET stored == investors[res.id] IN
        /\ stored.status = "pending"
        /\ stored.safeDocumentId \in Rows(documents)
        /\ documents[stored.safeDocumentId].companyId = stored.companyId
        /\ documents[stored.safeDocumentId].type = "safe"
        /\ documents[stored.safeDocumentId].status = "drafting"
        /\ res.investor.safeDocumentId = stored.safeDocumentId

\* C10: a status becomes signing only by sendForSignature, becomes active
\* only by a sign that finds all signatures signed, and validateDocument
\* changes a status to nothing but validating.
C10_TransitionExclusivity ==
    [][\A d \in Rows(documents) :
          /\ (documents'[d].status = "signing" /\ documents[d].status # "signing")
                => res'.op = "sendForSignature"
          /\ (documents'[d].status = "active" /\ documents[d].status # "active")
                => (res'.op = "signByToken" /\ allSigned(signatures', d))
          /\ (res'.op = "validateDocument" /\ documents'[d].status # documents[d].status)
                => documents'[d].status = "validating"]_vars

\* C12: createCompany by a user who already has a company is answered 400
\* and creates no company; after any createCompany each user id has at most
\* one company row.
C12_OneCompanyPerUser ==
    [][res'.op = "createCompany" =>
          /\ (\E c \in Rows(companies) : companies[c].userId = res'.user)
                => (res'.code = 400 /\ companies' = companies)
          /\ \A c1, c2 \in Rows(companies') :
                companies'[c1].userId = companies'[c2].userId => c1 = c2]_vars

\* C12 witness: a second createCompany of the same user was refused.
C12_Witness ==
    /\ res.op = "createCompany" /\ res.code = 400
    /\ Cardinality({c \in Rows(companies) : companies[c].userId = res.user}) = 1

\* C13: a request that carries no session is refused (401) by every route
\* behind requireAuth and changes neither the store nor the index.  Every
\* request of Spec arrives without a session; signByToken is the public route.
GuardedOps == {"createCompany", "createDocument", "updateDocument",
               "validateDocument", "sendForSignature"}
C13_NoSessionRejected ==
    [][res'.op \in GuardedOps =>
          (res'.code = 401 /\ UNCHANGED <<store, index>>)]_vars

\* C14: updateDocument, validateDocument and sendForSignature addressed to an
\* id that no document has are answered 404 and change neither the store nor
\* the index.
C14_MissingDocumentNotFound ==
    [][(/\ res'.op \in {"updateDocument", "validateDocument", "sendForSignature"}
        /\ res'.id \notin Rows(documents))
       => (res'.code = 404 /\ UNCHANGED <<store, index>>)]_vars

\* C15: validateDocument changes a document only when its verdict is valid,
\* and then only the status of the validated document; with an invalid
\* verdict every document keeps its status and all its other fields.
C15_ValidateOnlyWhenValid ==
    [][res'.op = "validateDocument" =>
          /\ ~(res'.code = 200 /\ res'.valid) => documents' = documents
          /\ Len(documents') = Len(documents)
          /\ \A d \in Rows(documents) :
                /\ documents'[d].companyId = documents[d].companyId
                /\ documents'[d].type = documents[d].type
                /\ documents'[d].content = documents[d].content
                /\ d # res'.id => documents'[d].status = documents[d].status]_vars

\* C15 witness: an invalid verdict on a document in signing left it in signing.
C15_Witness ==
    /\ res.op = "validateDocument" /\ res.code = 200 /\ res.valid = FALSE
    /\ documents[res.id].status = "signing"

\* C16: a signature row is created in status sent, and once it is signed no
\* step changes its status or its signed timestamp.
C16_SignedIsTerminal ==
    [][/\ \A s \in Rows(signatures) :
            signatures[s].status = "signed"
                => /\ signatures'[s].status = "signed"
                   /\ signatures'[s].signedAt = signatures[s].signedAt
       /\ \A s \in Rows(signatures') \ Rows(signatures) :
            signatures'[s].status = "sent"]_vars

\* C16 witness: a signature was signed, then a second one of the document
\* was signed later, and a further sign with the first token was refused.
C16_Witness ==
    /\ res.op = "signByToken" /\ res.code = 400
    /\ \E s \in Rows(signatures) \ {res.signature} :
          /\ signatures[s].status = "signed"
          /\ signatures[res.signature].signedAt < signatures[s].signedAt

C20_DraftFailureNullRef ==
    [][\A r \in 0..MaxDocs :
          (/\ addInvestor(NoSession, TRUE, r, "error")
           /\ openaiConfigured
           /\ companies # <<>>
           /\ r \in {NoId} \cup Rows(documents))
          => /\ Len(investors') = Len(investors) + 1
             /\ investors'[Len(investors')].status = "pending"
             /\ investors'[Len(investors')].safeDocumentId = NoId
             /\ documents' = documents
             /\ res'.code >= 400]_vars

\* C11: when two sign requests for different signatures of one document, run
\* at once with their store calls interleaved in any order, have both been
\* answered, both signatures are signed, and if no signature of the document
\* is left unsigned the document is active.
C11_ConcurrentSignsActivate ==
    \A p, q \in Procs :
        (/\ p # q
         /\ inflight[p].pc = "done" /\ inflight[q].pc = "done"
         /\ inflight[p].code = 200 /\ inflight[q].code = 200
         /\ inflight[p].signature # inflight[q].signature
         /\ signatures[inflight[p].signature].documentId
               = signatures[inflight[q].signature].documentId)
        => LET d == signatures[inflight[p].signature].documentId IN
           /\ signatures[inflight[p].signature].status = "signed"
           /\ signatures[inflight[q].signature].status = "signed"
           /\ (\A s \in Rows(signatures) :
                  signatures[s].documentId = d => signatures[s].status = "signed")
                => documents[d].status = "active"

\* C11 witness: both requests wrote their signature before either re-read
\* the set, so both found all signed and both wrote active.
C11_Witness ==
    /\ \A p \in Procs :
          /\ inflight[p].pc = "done" /\ inflight[p].code = 200
          /\ inflight[p].allSigned
    /\ inflight[1].signature # inflight[2].signature
    /\ signatures[inflight[1].signature].documentId
          = signatures[inflight[2].signature].documentId
    /\ documents[signatures[inflight[1].signature].documentId].status = "active"

\* C18: when two requests have run ensureCollection on an index whose
\* collection did not exist, both have completed without error and the
\* collection exists.
C18_ConcurrentEnsureSucceeds ==
    (isAvailable /\ \A p \in Procs : inflight[p].pc = "done")
        => /\ \A p \in Procs : inflight[p].code = 200
           /\ collection

C21_FounderInvited ==
    [][\A b \in FounderBodies, m \in BOOLEAN :
          (inviteFounder(NoSession, TRUE, b, m) /\ companies # <<>>)
          => /\ Len(founders') = Len(founders) + 1
             /\ \A f \in Rows(founders) : founders'[f] = founders[f]
             /\ founders'[Len(founders')].status = "invited"
             /\ companies[founders'[Len(founders')].companyId].userId = DemoUser
             /\ res'.code = IF m THEN 400 ELSE 200]_vars

\* C21 witness: the notification failed and the founder row is there.
C21_Witness ==
    /\ res.op = "inviteFounder" /\ res.code = 400 /\ res.id \in Rows(founders)
    /\ founders[res.id].status = "invited"

C22_ChatAppendOnly ==
    [][/\ Len(chatMessages') >= Len(chatMessages)
       /\ \A m \in Rows(chatMessages) : chatMessages'[m] = chatMessages[m]
       /\ (res'.op = "sendChatMessage" /\ res'.code = 200) =>
            LET n == Len(chatMessages) IN
            /\ Len(chatMessages') = n + 2
            /\ chatMessages'[n + 1].role = "user"
            /\ chatMessages'[n + 2].role = "assistant"
            /\ res'.userMessage = chatMessages'[n + 1]
            /\ res'.assistantMessage = chatMessages'[n + 2]
       /\ \A c \in Contents, r \in {"answer", "error"} :
            (sendChatMessage(NoSession, c, r) /\ companies # <<>> /\ ~openaiConfigured)
            => /\ res'.code = 200
               /\ chatMessages'[Len(chatMessages')].content =
                     "I'm sorry, the AI service is not configured. Please contact support."]_vars

\* C22 witness: a second exchange was appended after the first, the service
\* not configured and the reply the fallback text.
C22_Witness ==
    /\ res.op = "sendChatMessage" /\ res.code = 200 /\ ~openaiConfigured
    /\ Len(chatMessages) = 4
    /\ chatMessages[3].role = "user" /\ chatMessages[4].role = "assistant"
    /\ chatMessages[4].content = Fallback

\* C23: with the retrieval service available, after any createDocument and
\* updateDocument requests the index holds at most one point per document,
\* and the content of that point is the stored content of the document.
C23_IndexMatchesStore ==
    isAvailable =>
        \A p \in points :
            p.id[1] = "doc" =>
                /\ p.id[2] \in Rows(documents)
                /\ p.content = documents[p.id[2]].content
                /\ \A q \in points : q.id = p.id => q = p

\* C24: of two sign requests that carry the same token and run at once, at
\* most one is answered with success, so the signed timestamp of the
\* signature is written at most once.
C24_SameTokenSignedOnce ==
    \A p, q \in Procs :
        (/\ p # q
         /\ inflight[p].pc = "done" /\ inflight[q].pc = "done"
         /\ inflight[p].token = inflight[q].token)
        => ~(inflight[p].code = 200 /\ inflight[q].code = 200)

\* C25: a document in status signing has a signature that is not signed yet.
C25_SigningHasOutstanding ==
    \A d \in Rows(documents) :
        documents[d].status = "signing"
            => \E s \in Rows(signatures) :
                  signatures[s].documentId = d /\ signatures[s].status # "signed"

\* C26: when the generation service is not configured, or its reply is not
\* a parsable validation result, validateDocument reports a result that is
\* not valid and leaves the document's status as it was.
C26_ValidateNeedsVerdict ==
    [][\A id \in Rows(documents), r \in Replies :
          (validateDocumentRoute(id, r) /\ (~openaiConfigured \/ r = "text"))
          => (res'.valid = FALSE /\ documents' = documents)]_vars

\* C27: a user cannot read or update a document of a company that is not
\* theirs, nor list its signatures, through the by-id document routes: such
\* a request is refused, returns no document or signature and changes nothing.
C27_DocumentTenantIsolation ==
    [][\A u \in Users, id \in Rows(documents) :
          companies[documents[id].companyId].userId # u
          => /\ getDocumentRoute(u, id) => res'.code >= 400
             /\ listSignaturesRoute(u, id) => (res'.code >= 400 \/ res'.signatures = {})
             /\ \A b \in StatusBodies :
                   updateDocumentRoute(u, id, b)
                      => (res'.code >= 400 /\ documents' = documents)]_vars

\* C28: whatever the interleaving of two createCompany requests of one user
\* who has no company, at most one succeeds and the user has at most one
\* company row afterwards.
C28_ConcurrentCreateCompany ==
    /\ \A c1, c2 \in Rows(companies) :
          companies[c1].userId = companies[c2].userId => c1 = c2
    /\ \A p, q \in Procs :
          (/\ p # q
           /\ inflight[p].pc = "done" /\ inflight[p].op = "createCompany"
           /\ inflight[q].pc = "done" /\ inflight[q].op = "createCompany")
          => ~(inflight[p].code = 200 /\ inflight[q].code = 200)

\* C29: when two updateDocument requests that change the content of one
\* document have run at once and both have completed, with the retrieval
\* service available, the point of the document in the index holds the
\* content that the store holds.
C29_StoreIndexAgree ==
    \A p, q \in Procs :
        (/\ isAvailable
         /\ p # q
         /\ inflight[p].pc = "done" /\ inflight[q].pc = "done"
         /\ inflight[p].code = 200 /\ inflight[q].code = 200
         /\ inflight[p].id = inflight[q].id
         /\ inflight[p].id \in Rows(documents)
         /\ inflight[p].content # NoContent /\ inflight[q].content # NoContent)
        => \E x \in points :
              /\ x.id = <<"doc", inflight[p].id>>
              /\ x.content = documents[inflight[p].id].content
====
